---- MODULE Spec2Model ----
(***************************************************************************)
(* Delegated-operation execution service                                   *)
(* (fiftyone/operators/delegated.py, class DelegatedOperationService).     *)
(*                                                                         *)
(* The service is stateless: all state lives in the repository.  The       *)
(* repository and the operator resolver are collaborators whose code is    *)
(* not part of delegated.py; they are modelled by their contracts (the     *)
(* Repo_* and prepare_operator_executor / operator_execute definitions).   *)
(* The batch driver execute_queued_operations is split at its repository   *)
(* calls and at the operator's execute call, which are the points where    *)
(* another driver or caller can interleave.                                *)
(***************************************************************************)
EXTENDS Naturals, Sequences, FiniteSets

VARIABLES
    docs,        \* the repository: sequence of operation documents, in insertion order
    nextId,      \* next id the repository assigns
    drv,         \* per driver instance: the frame of its execute_queued_operations call
    executions,  \* history: per document id, how many times operator.execute was invoked
    passes,      \* per driver instance: execute_queued_operations calls made so far
    calls,       \* number of direct state-changing service calls made so far
    last         \* the step just taken, when it is a rerun_operation call or a direct
                 \* call whose repository call raised; NoCall after any other step

vars == <<docs, nextId, drv, executions, passes, calls, last>>

----------------------------------------------------------------------------
(* Bounds of the model *)

MaxDocs == 2
MaxPasses == 1
MaxCalls == 1

----------------------------------------------------------------------------
(* Values *)

None == "None"

QUEUED == "queued"
RUNNING == "running"
COMPLETED == "completed"
FAILED == "failed"

RunStates == {QUEUED, RUNNING, COMPLETED, FAILED}
Terminal == {COMPLETED, FAILED}

\* Operator URIs: one that resolves and returns its input, one that resolves
\* and raises while executing, one that cannot be resolved.
Operators == {"echo", "boom", "missing-op"}
Targets == {None, "gpu"}
\* A context is None or carries request_params {"msg": m}; it is named by m.
Contexts == {None, "hi"}
Drivers == {"d1", "d2"}

\* ExecutionResult values.  kind "none" is Python's None, "result" a success
\* payload, "error" an error trace, "params" a request_params mapping.
NoResult == [kind |-> "none", val |-> None, run_doc |-> 0]
ErrorResult(e) == [kind |-> "error", val |-> e, run_doc |-> 0]
Payload(m, id) == [kind |-> "result", val |-> m, run_doc |-> id]
Params(m, id) == [kind |-> "params", val |-> m, run_doc |-> id]

ResolveError == ErrorResult("operator not found")
Traceback == ErrorResult("traceback")
\* Results a direct caller passes to set_completed / set_failed.
CompletedResults == {NoResult, Payload("done", 0)}
FailedResults == {ErrorResult("cancelled")}

\* The (operator, delegation_target, context) triples callers queue.
Requests ==
    { [operator |-> "echo",       delegation_target |-> None,  context |-> "hi"],
      [operator |-> "boom",       delegation_target |-> "gpu", context |-> "hi"],
      [operator |-> "missing-op", delegation_target |-> None,  context |-> "hi"],
      [operator |-> "echo",       delegation_target |-> "gpu", context |-> None] }

\* An optional integer (limit, paging): <<>> is None, <<n>> is n.
NoLimit == <<>>
NoPaging == <<>>
DelegatedOpPagingParams(limit) == <<limit>>

----------------------------------------------------------------------------
(* Sequence helpers *)

Range(s) == {s[k] : k \in 1..Len(s)}

Take(s, n) == IF n >= Len(s) THEN s ELSE SubSeq(s, 1, n)

Ids(ds) == {ds[k].id : k \in 1..Len(ds)}

----------------------------------------------------------------------------
(* Repository contract *)

Repo_has(ds, id) == \E k \in 1..Len(ds) : ds[k].id = id

Repo_get(ds, id) == ds[CHOOSE k \in 1..Len(ds) : ds[k].id = id]

\* queue_operation(**kwargs): a new document with a fresh id, state QUEUED,
\* no result, not pinned; only operator, delegation_target and context are
\* taken from the keyword arguments.
Repo_queue_operation(ds, id, kwargs) ==
    Append(ds, [id |-> id,
                operator |-> kwargs.operator,
                delegation_target |-> kwargs.delegation_target,
                context |-> kwargs.context,
                run_state |-> QUEUED,
                result |-> NoResult,
                pinned |-> FALSE])

\* update_run_state(_id, run_state, result=None): writes the state
\* unconditionally; COMPLETED and FAILED also write the result passed.
Repo_update_run_state(ds, id, run_state, result) ==
    [k \in 1..Len(ds) |->
        IF ds[k].id = id
        THEN [ds[k] EXCEPT !.run_state = run_state,
                           !.result = IF run_state \in Terminal THEN result ELSE @]
        ELSE ds[k]]

Repo_set_pinned(ds, id, pinned) ==
    [k \in 1..Len(ds) |-> IF ds[k].id = id THEN [ds[k] EXCEPT !.pinned = pinned] ELSE ds[k]]

Matches(doc, operator, delegation_target, run_state) ==
    /\ operator = None \/ doc.operator = operator
    /\ delegation_target = None \/ doc.delegation_target = delegation_target
    /\ run_state = None \/ doc.run_state = run_state

\* list_operations(filters..., paging): the matching documents in repository
\* order, cut to paging.limit when paging is given.
Repo_list_operations(ds, operator, delegation_target, run_state, paging) ==
    LET hits == SelectSeq(ds, LAMBDA doc : Matches(doc, operator, delegation_target, run_state))
    IN  IF paging = NoPaging THEN hits ELSE Take(hits, paging[1])

----------------------------------------------------------------------------
(* Operator resolver and operators *)

\* prepare_operator_executor(operator_uri, request_params): an ExecutionResult
\* for an operator that cannot be resolved, and otherwise the bound context.
prepare_operator_executor(operator_uri, request_params) ==
    IF operator_uri = "missing-op" THEN ResolveError ELSE request_params

IsExecutionResult(prepared) == prepared.kind = "error"

\* operator.execute(ctx): "echo" returns its input, "boom" raises.
operator_raises(operator_uri) == operator_uri = "boom"

operator_execute(ctx) == Payload(ctx.val, ctx.run_doc)

----------------------------------------------------------------------------
(* Initial state *)

NoCall == [op |-> None, raised |-> FALSE, doc_id |-> 0, ret |-> 0]

IdleFrame ==
    [pc |-> "idle", ops |-> <<>>, i |-> 1, limit |-> NoLimit,
     prepared |-> NoResult, ret |-> NoResult, exc |-> None,
     outcome |-> None, log |-> <<>>]

Results ==
    {NoResult, ResolveError, Traceback} \cup CompletedResults \cup FailedResults
        \cup {Payload(m, id) : m \in Contexts \ {None}, id \in 1..MaxDocs}

Documents ==
    [id : 1..MaxDocs, operator : Operators, delegation_target : Targets,
     context : Contexts, run_state : RunStates, result : Results, pinned : BOOLEAN]

\* The shape of the state: the stored documents, and the locals of each
\* driver's call.
TypeOK ==
    /\ docs \in Seq(Documents) /\ Len(docs) <= MaxDocs
    /\ nextId = Len(docs) + 1
    /\ \A k \in 1..Len(docs) : docs[k].id = k
    /\ \A d \in Drivers :
           /\ drv[d].pc \in {"idle", "loop", "prepared", "executing", "complete", "except"}
           /\ drv[d].ops \in Seq(Documents)
           /\ drv[d].i \in 1..(Len(drv[d].ops) + 1)
           /\ drv[d].pc \in {"prepared", "executing", "complete", "except"}
                  => drv[d].i <= Len(drv[d].ops)
           /\ drv[d].exc \in {None, "AttributeError", "OperatorError", "RepositoryError"}
           /\ drv[d].outcome \in {None, "returned", "raised"}
           /\ passes[d] \in 0..MaxPasses
    /\ executions \in [1..MaxDocs -> Nat]
    /\ calls \in 0..MaxCalls

Init ==
    /\ docs = <<>>
    /\ nextId = 1
    /\ drv = [d \in Drivers |-> IdleFrame]
    /\ executions = [id \in 1..MaxDocs |-> 0]
    /\ passes = [d \in Drivers |-> 0]
    /\ calls = 0
    /\ last = NoCall

----------------------------------------------------------------------------
(* Service methods that wrap one repository call (pure part) *)

set_running(ds, doc_id) == Repo_update_run_state(ds, doc_id, RUNNING, NoResult)

set_completed(ds, doc_id, result) == Repo_update_run_state(ds, doc_id, COMPLETED, result)

set_failed(ds, doc_id, result) == Repo_update_run_state(ds, doc_id, FAILED, result)

----------------------------------------------------------------------------
(* Direct calls of the service by a caller *)

queue_operation(operator, delegation_target, context) ==
    /\ Len(docs) < MaxDocs
    /\ docs' = Repo_queue_operation(docs, nextId,
                   [operator |-> operator,
                    delegation_target |-> delegation_target,
                    context |-> context])
    /\ nextId' = nextId + 1
    /\ last' = NoCall
    /\ UNCHANGED <<drv, executions, passes, calls>>

\* Variant of rerun_operation that passes only the operator and the
\* delegation target on, losing the context.
rerun_operation_without_context(doc_id) ==
    /\ Len(docs) < MaxDocs
    /\ Repo_has(docs, doc_id)
    /\ docs' = Repo_queue_operation(docs, nextId,
                   [Repo_get(docs, doc_id) EXCEPT !.context = None])
    /\ nextId' = nextId + 1
    /\ last' = [NoCall EXCEPT !.op = "rerun_operation", !.doc_id = doc_id, !.ret = nextId]
    /\ UNCHANGED <<drv, executions, passes, calls>>

\* Variant of rerun_operation that also puts the original back to QUEUED.
rerun_operation_requeues_original(doc_id) ==
    /\ Len(docs) < MaxDocs
    /\ Repo_has(docs, doc_id)
    /\ docs' = Repo_queue_operation(
                   Repo_update_run_state(docs, doc_id, QUEUED, NoResult),
                   nextId, Repo_get(docs, doc_id))
    /\ nextId' = nextId + 1
    /\ last' = [NoCall EXCEPT !.op = "rerun_operation", !.doc_id = doc_id, !.ret = nextId]
    /\ UNCHANGED <<drv, executions, passes, calls>>

\* rerun_operation: doc = repo.get(doc_id); repo.queue_operation(**doc.__dict__)
rerun_operation(doc_id) ==
    /\ Len(docs) < MaxDocs
    /\ Repo_has(docs, doc_id)
    /\ docs' = Repo_queue_operation(docs, nextId, Repo_get(docs, doc_id))
    /\ nextId' = nextId + 1
    /\ last' = [NoCall EXCEPT !.op = "rerun_operation", !.doc_id = doc_id, !.ret = nextId]
    /\ UNCHANGED <<drv, executions, passes, calls>>

call_set_running(doc_id) ==
    /\ calls < MaxCalls
    /\ Repo_has(docs, doc_id)
    /\ docs' = set_running(docs, doc_id)
    /\ calls' = calls + 1
    /\ last' = NoCall
    /\ UNCHANGED <<nextId, drv, executions, passes>>

call_set_completed(doc_id, result) ==
    /\ calls < MaxCalls
    /\ Repo_has(docs, doc_id)
    /\ docs' = set_completed(docs, doc_id, result)
    /\ calls' = calls + 1
    /\ last' = NoCall
    /\ UNCHANGED <<nextId, drv, executions, passes>>

call_set_failed(doc_id, result) ==
    /\ calls < MaxCalls
    /\ Repo_has(docs, doc_id)
    /\ docs' = set_failed(docs, doc_id, result)
    /\ calls' = calls + 1
    /\ last' = NoCall
    /\ UNCHANGED <<nextId, drv, executions, passes>>

set_pinned(doc_id, pinned) ==
    /\ calls < MaxCalls
    /\ Repo_has(docs, doc_id)
    /\ docs' = Repo_set_pinned(docs, doc_id, pinned)
    /\ calls' = calls + 1
    /\ last' = NoCall
    /\ UNCHANGED <<nextId, drv, executions, passes>>

----------------------------------------------------------------------------
(* The batch driver, execute_queued_operations, and _execute_operator *)

Event(ev, id, res) == [ev |-> ev, id |-> id, res |-> res]

\* limit arguments: None, or a number that can cut a listing short.
Limits == {NoLimit} \cup {<<n>> : n \in 0..(MaxDocs - 1)}

\* operator filter arguments
OperatorFilters == {None, "echo"}

Frame(d, f) == drv' = [drv EXCEPT ![d] = f]

\* Variant of lines 135-146 that never builds the paging from limit.
execute_queued_operations_unpaged(d, operator, delegation_target, limit) ==
    /\ drv[d].pc = "idle"
    /\ passes[d] < MaxPasses
    /\ passes' = [passes EXCEPT ![d] = @ + 1]
    /\ Frame(d, [IdleFrame EXCEPT
                   !.pc = "loop",
                   !.limit = limit,
                   !.ops = Repo_list_operations(
                              docs, operator, delegation_target, QUEUED, NoPaging)])
    /\ last' = NoCall
    /\ UNCHANGED <<docs, nextId, executions, calls>>

\* Lines 135-146: build the paging, take the QUEUED listing once.
execute_queued_operations(d, operator, delegation_target, limit) ==
    /\ drv[d].pc = "idle"
    /\ passes[d] < MaxPasses
    /\ passes' = [passes EXCEPT ![d] = @ + 1]
    /\ Frame(d, [IdleFrame EXCEPT
                   !.pc = "loop",
                   !.limit = limit,
                   !.ops = Repo_list_operations(
                              docs, operator, delegation_target, QUEUED,
                              IF limit # NoLimit
                              THEN DelegatedOpPagingParams(limit[1])
                              ELSE NoPaging)])
    /\ last' = NoCall
    /\ UNCHANGED <<docs, nextId, executions, calls>>

\* Variant of lines 171-176 that resolves without injecting run_doc.
execute_operator_prepare_without_run_doc(d) ==
    LET f == drv[d] IN
    /\ f.pc = "loop"
    /\ f.i <= Len(f.ops)
    /\ LET doc == f.ops[f.i] IN
       IF doc.context = None
       THEN Frame(d, [f EXCEPT !.pc = "except", !.exc = "AttributeError"])
       ELSE LET request_params == Params(doc.context, 0) IN
            Frame(d, [f EXCEPT
                        !.pc = "prepared",
                        !.prepared = prepare_operator_executor(doc.operator, request_params),
                        !.log = Append(@, Event("resolve", doc.id, request_params))])
    /\ last' = NoCall
    /\ UNCHANGED <<docs, nextId, executions, passes, calls>>

\* Variant of lines 171-176 that gives a document without a context empty
\* request parameters instead of failing.
execute_operator_prepare_default_context(d) ==
    LET f == drv[d] IN
    /\ f.pc = "loop"
    /\ f.i <= Len(f.ops)
    /\ LET doc == f.ops[f.i]
           request_params == Params(doc.context, doc.id) IN
       Frame(d, [f EXCEPT
                   !.pc = "prepared",
                   !.prepared = prepare_operator_executor(doc.operator, request_params),
                   !.log = Append(@, Event("resolve", doc.id, request_params))])
    /\ last' = NoCall
    /\ UNCHANGED <<docs, nextId, executions, passes, calls>>

\* Lines 148-176: next op of the listing; inject run_doc into the context's
\* request_params (AttributeError when the context is None), then resolve.
execute_operator_prepare(d) ==
    LET f == drv[d] IN
    /\ f.pc = "loop"
    /\ f.i <= Len(f.ops)
    /\ LET doc == f.ops[f.i] IN
       IF doc.context = None
       THEN Frame(d, [f EXCEPT !.pc = "except", !.exc = "AttributeError"])
       ELSE LET request_params == Params(doc.context, doc.id) IN
            Frame(d, [f EXCEPT
                        !.pc = "prepared",
                        !.prepared = prepare_operator_executor(doc.operator, request_params),
                        !.log = Append(@, Event("resolve", doc.id, request_params))])
    /\ last' = NoCall
    /\ UNCHANGED <<docs, nextId, executions, passes, calls>>

\* Lines 178-179: resolution gave an ExecutionResult; set_failed with it, and
\* the coroutine returns None to the driver.
execute_operator_set_failed(d) ==
    LET f == drv[d]
        doc == f.ops[f.i] IN
    /\ f.pc = "prepared"
    /\ IsExecutionResult(f.prepared)
    /\ docs' = set_failed(docs, doc.id, f.prepared)
    /\ Frame(d, [f EXCEPT
                   !.pc = "complete",
                   !.ret = NoResult,
                   !.log = Append(@, Event("set_failed", doc.id, f.prepared))])
    /\ last' = NoCall
    /\ UNCHANGED <<nextId, executions, passes, calls>>

\* Variant of lines 180-182 without the isinstance test: set_running whatever
\* the resolver gave.
execute_operator_set_running_unchecked(d) ==
    LET f == drv[d]
        doc == f.ops[f.i] IN
    /\ f.pc = "prepared"
    /\ docs' = set_running(docs, doc.id)
    /\ Frame(d, [f EXCEPT
                   !.pc = "executing",
                   !.log = Append(@, Event("set_running", doc.id, NoResult))])
    /\ last' = NoCall
    /\ UNCHANGED <<nextId, executions, passes, calls>>

\* Variant of lines 180-183 that does not wait for the execution: the loop
\* goes on to the next document once the document is RUNNING.
execute_operator_set_running_not_awaited(d) ==
    LET f == drv[d]
        doc == f.ops[f.i] IN
    /\ f.pc = "prepared"
    /\ ~IsExecutionResult(f.prepared)
    /\ docs' = set_running(docs, doc.id)
    /\ Frame(d, [f EXCEPT
                   !.pc = "loop",
                   !.i = @ + 1,
                   !.prepared = NoResult,
                   !.log = Append(@, Event("set_running", doc.id, NoResult))])
    /\ last' = NoCall
    /\ UNCHANGED <<nextId, executions, passes, calls>>

\* Lines 180-182: resolution gave an operator; set_running.
execute_operator_set_running(d) ==
    LET f == drv[d]
        doc == f.ops[f.i] IN
    /\ f.pc = "prepared"
    /\ ~IsExecutionResult(f.prepared)
    /\ docs' = set_running(docs, doc.id)
    /\ Frame(d, [f EXCEPT
                   !.pc = "executing",
                   !.log = Append(@, Event("set_running", doc.id, NoResult))])
    /\ last' = NoCall
    /\ UNCHANGED <<nextId, executions, passes, calls>>

\* Line 183: operator.execute(ctx) returns its value or raises.
execute_operator_execute(d) ==
    LET f == drv[d]
        doc == f.ops[f.i] IN
    /\ f.pc = "executing"
    /\ executions' = [executions EXCEPT ![doc.id] = @ + 1]
    /\ IF operator_raises(doc.operator)
       THEN Frame(d, [f EXCEPT
                        !.pc = "except",
                        !.exc = "OperatorError",
                        !.log = Append(@, Event("execute", doc.id, Traceback))])
       ELSE Frame(d, [f EXCEPT
                        !.pc = "complete",
                        !.ret = operator_execute(f.prepared),
                        !.log = Append(@, Event("execute", doc.id, operator_execute(f.prepared)))])
    /\ last' = NoCall
    /\ UNCHANGED <<docs, nextId, passes, calls>>

\* Variant of line 160 that calls set_completed without the result.
driver_set_completed_without_result(d) ==
    LET f == drv[d]
        doc == f.ops[f.i] IN
    /\ f.pc = "complete"
    /\ docs' = set_completed(docs, doc.id, NoResult)
    /\ Frame(d, [f EXCEPT
                   !.pc = "loop",
                   !.i = @ + 1,
                   !.prepared = NoResult,
                   !.ret = NoResult,
                   !.log = Append(@, Event("set_completed", doc.id, NoResult))])
    /\ last' = NoCall
    /\ UNCHANGED <<nextId, executions, passes, calls>>

\* Line 160: set_completed with whatever _execute_operator returned.
driver_set_completed(d) ==
    LET f == drv[d]
        doc == f.ops[f.i] IN
    /\ f.pc = "complete"
    /\ docs' = set_completed(docs, doc.id, f.ret)
    /\ Frame(d, [f EXCEPT
                   !.pc = "loop",
                   !.i = @ + 1,
                   !.prepared = NoResult,
                   !.ret = NoResult,
                   !.log = Append(@, Event("set_completed", doc.id, f.ret))])
    /\ last' = NoCall
    /\ UNCHANGED <<nextId, executions, passes, calls>>

\* Variant of lines 163-165 that goes on to the next op without writing FAILED.
driver_except_without_set_failed(d) ==
    LET f == drv[d] IN
    /\ f.pc = "except"
    /\ Frame(d, [f EXCEPT
                   !.pc = "loop",
                   !.i = @ + 1,
                   !.prepared = NoResult,
                   !.ret = NoResult,
                   !.exc = None])
    /\ last' = NoCall
    /\ UNCHANGED <<docs, nextId, executions, passes, calls>>

\* Variant of lines 149-165 without the try/except: the exception ends the call.
driver_except_propagates(d) ==
    LET f == drv[d] IN
    /\ f.pc = "except"
    /\ Frame(d, [f EXCEPT !.pc = "idle", !.outcome = "raised"])
    /\ last' = NoCall
    /\ UNCHANGED <<docs, nextId, executions, passes, calls>>

\* Variant of lines 163-165 that records the document as COMPLETED.
driver_except_sets_completed(d) ==
    LET f == drv[d]
        doc == f.ops[f.i] IN
    /\ f.pc = "except"
    /\ docs' = set_completed(docs, doc.id, Traceback)
    /\ Frame(d, [f EXCEPT
                   !.pc = "loop",
                   !.i = @ + 1,
                   !.prepared = NoResult,
                   !.ret = NoResult,
                   !.exc = None,
                   !.log = Append(@, Event("set_completed", doc.id, Traceback))])
    /\ last' = NoCall
    /\ UNCHANGED <<nextId, executions, passes, calls>>

\* Lines 163-165: except Exception: set_failed with the formatted traceback.
driver_except(d) ==
    LET f == drv[d]
        doc == f.ops[f.i] IN
    /\ f.pc = "except"
    /\ docs' = set_failed(docs, doc.id, Traceback)
    /\ Frame(d, [f EXCEPT
                   !.pc = "loop",
                   !.i = @ + 1,
                   !.prepared = NoResult,
                   !.ret = NoResult,
                   !.exc = None,
                   !.log = Append(@, Event("set_failed", doc.id, Traceback))])
    /\ last' = NoCall
    /\ UNCHANGED <<nextId, executions, passes, calls>>

\* Variant of line 148's loop end that lists the QUEUED documents again and
\* goes on while there are any.
driver_return_relists(d) ==
    LET f == drv[d]
        more == Repo_list_operations(docs, None, None, QUEUED, NoPaging) IN
    /\ f.pc = "loop"
    /\ f.i > Len(f.ops)
    /\ IF more # <<>>
       THEN Frame(d, [f EXCEPT !.ops = more, !.i = 1])
       ELSE Frame(d, [f EXCEPT !.pc = "idle", !.outcome = "returned"])
    /\ last' = NoCall
    /\ UNCHANGED <<docs, nextId, executions, passes, calls>>

\* The for loop is exhausted: the call returns to its caller.
driver_return(d) ==
    LET f == drv[d] IN
    /\ f.pc = "loop"
    /\ f.i > Len(f.ops)
    /\ Frame(d, [f EXCEPT !.pc = "idle", !.outcome = "returned"])
    /\ last' = NoCall
    /\ UNCHANGED <<docs, nextId, executions, passes, calls>>

----------------------------------------------------------------------------
(* Repository failures: any repository call may raise *)

RepoError(site) == ErrorResult(site)

\* Lines 81-84, 103-104: set_pinned and get pass the call through with no
\* try/except, so the exception reaches the caller.
service_call_raises(op) ==
    /\ last' = [NoCall EXCEPT !.op = op, !.raised = TRUE]
    /\ UNCHANGED <<docs, nextId, drv, executions, passes, calls>>

\* Line 139: list_operations raises, outside the try block: the call ends
\* with the exception.
execute_queued_operations_raises(d) ==
    /\ drv[d].pc = "idle"
    /\ passes[d] < MaxPasses
    /\ passes' = [passes EXCEPT ![d] = @ + 1]
    /\ Frame(d, [IdleFrame EXCEPT
                   !.exc = "RepositoryError",
                   !.outcome = "raised",
                   !.log = <<Event("repo_error", 0, RepoError("list_operations"))>>])
    /\ last' = NoCall
    /\ UNCHANGED <<docs, nextId, executions, calls>>

\* Line 179: set_failed raises inside _execute_operator, inside the try block.
execute_operator_set_failed_raises(d) ==
    LET f == drv[d]
        doc == f.ops[f.i] IN
    /\ f.pc = "prepared"
    /\ IsExecutionResult(f.prepared)
    /\ Frame(d, [f EXCEPT
                   !.pc = "except",
                   !.exc = "RepositoryError",
                   !.log = Append(@, Event("repo_error", doc.id, RepoError("set_failed:179")))])
    /\ last' = NoCall
    /\ UNCHANGED <<docs, nextId, executions, passes, calls>>

\* Variant of line 182 outside any try block: the exception ends the call.
execute_operator_set_running_raises_uncaught(d) ==
    LET f == drv[d]
        doc == f.ops[f.i] IN
    /\ f.pc = "prepared"
    /\ ~IsExecutionResult(f.prepared)
    /\ Frame(d, [f EXCEPT
                   !.pc = "idle",
                   !.exc = "RepositoryError",
                   !.outcome = "raised",
                   !.log = Append(@, Event("repo_error", doc.id, RepoError("set_running:182")))])
    /\ last' = NoCall
    /\ UNCHANGED <<docs, nextId, executions, passes, calls>>

\* Line 182: set_running raises inside _execute_operator, inside the try block.
execute_operator_set_running_raises(d) ==
    LET f == drv[d]
        doc == f.ops[f.i] IN
    /\ f.pc = "prepared"
    /\ ~IsExecutionResult(f.prepared)
    /\ Frame(d, [f EXCEPT
                   !.pc = "except",
                   !.exc = "RepositoryError",
                   !.log = Append(@, Event("repo_error", doc.id, RepoError("set_running:182")))])
    /\ last' = NoCall
    /\ UNCHANGED <<docs, nextId, executions, passes, calls>>

\* Line 160: set_completed raises inside the try block.
driver_set_completed_raises(d) ==
    LET f == drv[d]
        doc == f.ops[f.i] IN
    /\ f.pc = "complete"
    /\ Frame(d, [f EXCEPT
                   !.pc = "except",
                   !.exc = "RepositoryError",
                   !.log = Append(@, Event("repo_error", doc.id, RepoError("set_completed:160")))])
    /\ last' = NoCall
    /\ UNCHANGED <<docs, nextId, executions, passes, calls>>

\* Line 165: set_failed raises inside the except clause: nothing catches it,
\* the call ends with the exception and the rest of the listing is not run.
driver_except_raises(d) ==
    LET f == drv[d]
        doc == f.ops[f.i] IN
    /\ f.pc = "except"
    /\ Frame(d, [f EXCEPT
                   !.pc = "idle",
                   !.exc = "RepositoryError",
                   !.outcome = "raised",
                   !.log = Append(@, Event("repo_error", doc.id, RepoError("set_failed:165")))])
    /\ last' = NoCall
    /\ UNCHANGED <<docs, nextId, executions, passes, calls>>

----------------------------------------------------------------------------
(* Specifications *)

Client ==
    \/ \E r \in Requests : queue_operation(r.operator, r.delegation_target, r.context)
    \/ \E id \in 1..MaxDocs : rerun_operation(id)
    \/ \E id \in 1..MaxDocs : call_set_running(id)
    \/ \E id \in 1..MaxDocs, r \in CompletedResults : call_set_completed(id, r)
    \/ \E id \in 1..MaxDocs, r \in FailedResults : call_set_failed(id, r)
    \/ \E id \in 1..MaxDocs, p \in BOOLEAN : set_pinned(id, p)

DriverStep(d) ==
    \/ execute_operator_prepare(d)
    \/ execute_operator_set_failed(d)
    \/ execute_operator_set_running(d)
    \/ execute_operator_execute(d)
    \/ driver_set_completed(d)
    \/ driver_except(d)
    \/ driver_return(d)

Driver(d) ==
    \/ \E o \in OperatorFilters, t \in Targets, l \in Limits :
           execute_queued_operations(d, o, t, l)
    \/ DriverStep(d)

NoPass == \A d \in Drivers : drv[d].pc = "idle"

\* One caller, one driver instance: service calls happen one after another.
Next ==
    \/ NoPass /\ Client
    \/ Driver("d1")

Spec == Init /\ [][Next]_vars

\* Two driver instances and direct callers on the same repository, interleaved
\* at the repository calls.
NextConc ==
    \/ Client
    \/ \E d \in Drivers : Driver(d)

SpecConc == Init /\ [][NextConc]_vars

\* One caller, one driver instance, and a repository whose calls may raise.
DriverRaises(d) ==
    \/ execute_queued_operations_raises(d)
    \/ execute_operator_set_failed_raises(d)
    \/ execute_operator_set_running_raises(d)
    \/ driver_set_completed_raises(d)
    \/ driver_except_raises(d)

NextRepo ==
    \/ NoPass /\ \E r \in Requests :
                     queue_operation(r.operator, r.delegation_target, r.context)
    \/ Driver("d1")
    \/ DriverRaises("d1")
    \/ NoPass /\ \E op \in {"get", "set_pinned"} : service_call_raises(op)

SpecRepo == Init /\ [][NextRepo]_vars

\* Callers queue and rerun operations and one driver instance runs its calls
\* to the end: a call in progress keeps taking steps until it returns.
NextPass ==
    \/ NoPass /\ \E r \in Requests :
                     queue_operation(r.operator, r.delegation_target, r.context)
    \/ NoPass /\ \E id \in 1..MaxDocs : rerun_operation(id)
    \/ Driver("d1")

SpecFair == Init /\ [][NextPass]_vars /\ WF_vars(DriverStep("d1"))

\* Callers queue and rerun operations at any time, also while the one driver
\* instance is in the middle of a call, and mark operations failed between
\* the driver's calls.
NextLate ==
    \/ \E r \in Requests :
           queue_operation(r.operator, r.delegation_target, r.context)
    \/ \E id \in 1..MaxDocs : rerun_operation(id)
    \/ NoPass /\ \E id \in 1..MaxDocs, r \in FailedResults : call_set_failed(id, r)
    \/ Driver("d1")

SpecLate == Init /\ [][NextLate]_vars

----------------------------------------------------------------------------
(* Vocabulary of the properties *)

Active(d) == drv[d].pc # "idle"

\* The for loop of the call is exhausted: the state in which it returns.
Finished(d) == drv[d].pc = "loop" /\ drv[d].i > Len(drv[d].ops)

Returned(d) == drv[d].pc = "idle" /\ drv[d].outcome = "returned"

Stored(id) == Repo_get(docs, id)

\* The events of driver d's current call that concern document id, in order.
LogOf(d, id) == SelectSeq(drv[d].log, LAMBDA e : e.id = id)

EventNames(evs) == [k \in 1..Len(evs) |-> evs[k].ev]

\* The operator of doc is reached by the resolver and the resolver refuses it.
ResolutionFails(doc) ==
    /\ doc.context # None
    /\ IsExecutionResult(prepare_operator_executor(doc.operator, Params(doc.context, doc.id)))

\* The operator of doc resolves and its execute call returns a value.
ExecutesNormally(doc) ==
    /\ doc.context # None
    /\ ~ResolutionFails(doc)
    /\ ~operator_raises(doc.operator)

----------------------------------------------------------------------------
(* C1: when execute_queued_operations returns, every listed document whose
   operator could not be resolved is FAILED and its stored result is the
   resolver's error result. *)
C1_ResolutionFailureEndsFailed ==
    \A d \in Drivers :
        Finished(d) =>
            \A k \in 1..Len(drv[d].ops) :
                ResolutionFails(drv[d].ops[k]) =>
                    /\ Stored(drv[d].ops[k].id).run_state = FAILED
                    /\ Stored(drv[d].ops[k].id).result = ResolveError

(* C2: COMPLETED and FAILED are terminal: no step of any service operation
   changes the run state of a document that is COMPLETED or FAILED. *)
C2_TerminalStatesAreFinal ==
    [][\A k \in 1..Len(docs) :
          docs[k].run_state \in Terminal => docs'[k].run_state = docs[k].run_state]_vars

(* C3: one call of execute_queued_operations terminates, and when it returns
   every document of its listing is COMPLETED or FAILED. *)
C3_ListingTerminalAtReturn ==
    \A d \in Drivers :
        Finished(d) =>
            \A k \in 1..Len(drv[d].ops) :
                Stored(drv[d].ops[k].id).run_state \in Terminal

\* C3, with termination: the above at every return, and every call in
\* progress eventually returns.
C3_PassTerminatesAllTerminal ==
    /\ []C3_ListingTerminalAtReturn
    /\ \A d \in Drivers : Active(d) ~> Returned(d)

\* A call returned after a listing of two: one operator raised, the other
\* could not be resolved.
C3_Witness ==
    /\ Returned("d1")
    /\ Len(drv["d1"].ops) = 2
    /\ \E k \in 1..2 : operator_raises(drv["d1"].ops[k].operator)
    /\ \E k \in 1..2 : ResolutionFails(drv["d1"].ops[k])
    /\ \A k \in 1..2 : Stored(drv["d1"].ops[k].id).run_state \in Terminal

(* C4: a failure of one document (its operator cannot be resolved, or raises
   while executing, or its context is missing) never aborts the batch: the
   call never ends with an exception, every document before the current one
   has received its final write, and the call returns only after the whole
   listing. *)
FinalWrite(d, id) ==
    \E k \in 1..Len(drv[d].log) :
        /\ drv[d].log[k].id = id
        /\ drv[d].log[k].ev \in {"set_completed", "set_failed"}

\* C4: no call ends with an exception; documents before the current one have
\* their final write; a returned call went through its whole listing.
C4_FailureDoesNotAbortBatch ==
    \A d \in Drivers :
        /\ drv[d].outcome # "raised"
        /\ Returned(d) => drv[d].i = Len(drv[d].ops) + 1
        /\ \A k \in 1..Len(drv[d].ops) :
               k < drv[d].i => FinalWrite(d, drv[d].ops[k].id)

\* A call returned after a listing of two whose first operator failed and
\* whose second operator was executed and completed.
C4_Witness ==
    /\ Returned("d1")
    /\ Len(drv["d1"].ops) = 2
    /\ \/ operator_raises(drv["d1"].ops[1].operator)
       \/ ResolutionFails(drv["d1"].ops[1])
    /\ ExecutesNormally(drv["d1"].ops[2])
    /\ EventNames(LogOf("d1", drv["d1"].ops[2].id))
           = <<"resolve", "set_running", "execute", "set_completed">>

(* C5: right after rerun_operation(id), the document it returned has the
   operator, context and delegation target of the original, an id that no
   other stored document has, run state QUEUED and no result. *)
C5_RerunQueuesFreshCopy ==
    last.op = "rerun_operation" =>
        /\ Repo_has(docs, last.ret)
        /\ last.ret # last.doc_id
        /\ Cardinality({k \in 1..Len(docs) : docs[k].id = last.ret}) = 1
        /\ Stored(last.ret).operator = Stored(last.doc_id).operator
        /\ Stored(last.ret).context = Stored(last.doc_id).context
        /\ Stored(last.ret).delegation_target = Stored(last.doc_id).delegation_target
        /\ Stored(last.ret).run_state = QUEUED
        /\ Stored(last.ret).result = NoResult

\* A rerun of a document that had failed with a stored result and carries a context.
C5_Witness ==
    /\ last.op = "rerun_operation"
    /\ Stored(last.doc_id).run_state = FAILED
    /\ Stored(last.doc_id).result # NoResult
    /\ Stored(last.doc_id).context # None
    /\ Stored(last.ret).run_state = QUEUED

(* C6: with two driver instances on one repository, each document's operator
   is executed at most once and at most one execution of it is in flight. *)
InFlight(id) ==
    {d \in Drivers : drv[d].pc = "executing" /\ drv[d].ops[drv[d].i].id = id}

\* C6: per document, at most one execution ever and at most one in flight.
C6_NoDoubleExecution ==
    \A id \in 1..MaxDocs :
        /\ executions[id] <= 1
        /\ Cardinality(InFlight(id)) <= 1

(* C7: for a document whose operator resolution yields a failure result, the
   driver never calls set_running and never invokes the operator's execute. *)
C7_ResolutionFailureNeverRuns ==
    \A d \in Drivers :
        \A k \in 1..Len(drv[d].ops) :
            ResolutionFails(drv[d].ops[k]) =>
                /\ executions[drv[d].ops[k].id] = 0
                /\ \A j \in 1..Len(drv[d].log) :
                       drv[d].log[j].id = drv[d].ops[k].id =>
                           drv[d].log[j].ev \notin {"set_running", "execute"}

\* A call returned after resolving an operator that the resolver refused.
C7_Witness ==
    /\ Returned("d1")
    /\ \E k \in 1..Len(drv["d1"].ops) :
           /\ ResolutionFails(drv["d1"].ops[k])
           /\ \E j \in 1..Len(drv["d1"].log) :
                  /\ drv["d1"].log[j].id = drv["d1"].ops[k].id
                  /\ drv["d1"].log[j].ev = "resolve"

(* C8: a call with limit = n touches at most n documents (state writes and
   executions), however many are QUEUED; a call without limit lists every
   QUEUED document that matches its filters, and returns only after each
   listed document has received its final write. *)
Touched(d) == {drv[d].log[k].id : k \in 1..Len(drv[d].log)}

C8_AtMostLimit ==
    \A d \in Drivers :
        /\ drv[d].limit # NoLimit =>
               /\ Len(drv[d].ops) <= drv[d].limit[1]
               /\ Cardinality(Touched(d)) <= drv[d].limit[1]
        /\ Returned(d) =>
               \A k \in 1..Len(drv[d].ops) : FinalWrite(d, drv[d].ops[k].id)

C8_NoLimitListsAll ==
    \A d \in Drivers, o \in OperatorFilters, t \in Targets :
        execute_queued_operations(d, o, t, NoLimit) =>
            \A k \in 1..Len(docs) :
                Matches(docs[k], o, t, QUEUED) =>
                    \E j \in 1..Len(drv'[d].ops) : drv'[d].ops[j].id = docs[k].id

\* C8: the bound of a limited call in every state, and the completeness of
\* an unlimited listing at every call.
C8_LimitBoundsBatch == []C8_AtMostLimit /\ [][C8_NoLimitListsAll]_vars

\* A call with limit 1 returned having processed one of two like documents;
\* the other is still QUEUED.
C8_Witness ==
    /\ Returned("d1")
    /\ drv["d1"].limit = <<1>>
    /\ Len(docs) = 2
    /\ Touched("d1") = {docs[1].id}
    /\ docs[1].run_state \in Terminal
    /\ docs[2].run_state = QUEUED
    /\ docs[2].operator = docs[1].operator
    /\ docs[2].delegation_target = docs[1].delegation_target

(* C9 as stated: every repository failure reaches the caller: it is the last
   thing that happens in the call, and the call ends with the exception. *)
C9_RepositoryFailurePropagates ==
    \A d \in Drivers :
        \A k \in 1..Len(drv[d].log) :
            drv[d].log[k].ev = "repo_error" =>
                /\ k = Len(drv[d].log)
                /\ drv[d].pc = "idle"
                /\ drv[d].outcome = "raised"

(* C9 amended: a repository failure of a direct pass-through call (get,
   set_pinned), of the listing, or of the set_failed call in the except clause
   reaches the caller; a repository failure inside the try block of the batch
   loop (set_failed and set_running in _execute_operator, set_completed) is
   caught, and the driver goes on to set_failed with the traceback for that
   document. *)
TrySites == {"set_failed:179", "set_running:182", "set_completed:160"}

\* C9 amended: failures at the try sites are caught and followed by the
\* handler's set_failed; failures elsewhere end the call with the exception.
C9_RepositoryFailureCaughtInTry ==
    /\ last.op \in {"get", "set_pinned"} => last.raised
    /\ \A d \in Drivers :
           \A k \in 1..Len(drv[d].log) :
               drv[d].log[k].ev = "repo_error" =>
                   IF drv[d].log[k].res.val \in TrySites
                   THEN /\ k = Len(drv[d].log) =>
                               /\ drv[d].pc = "except"
                               /\ drv[d].exc = "RepositoryError"
                        /\ k < Len(drv[d].log) =>
                               drv[d].log[k + 1] \in
                                   { Event("set_failed", drv[d].log[k].id, Traceback),
                                     Event("repo_error", drv[d].log[k].id,
                                           RepoError("set_failed:165")) }
                   ELSE /\ k = Len(drv[d].log)
                        /\ drv[d].pc = "idle"
                        /\ drv[d].outcome = "raised"
                        /\ drv[d].exc = "RepositoryError"

\* set_running raised for a document; the driver recorded it FAILED with the
\* traceback and the call returned.
C9_Witness ==
    /\ Returned("d1")
    /\ \E k \in 1..Len(drv["d1"].log) :
           /\ drv["d1"].log[k] =
                  Event("repo_error", drv["d1"].log[k].id, RepoError("set_running:182"))
           /\ k < Len(drv["d1"].log)
           /\ drv["d1"].log[k + 1] = Event("set_failed", drv["d1"].log[k].id, Traceback)
           /\ Stored(drv["d1"].log[k].id).run_state = FAILED
           /\ Stored(drv["d1"].log[k].id).result = Traceback

(* C10: a listed document whose operator resolves and whose execution returns
   is written RUNNING and then COMPLETED by the driver, in that order and
   starting from QUEUED; the result written at COMPLETED is the value the
   execute call returned; while the operator executes the stored state is
   RUNNING and until the call returns it is COMPLETED with that value. *)
C10_NormalExecutionCompletes ==
    \A d \in Drivers :
        /\ drv[d].pc = "executing" =>
               Stored(drv[d].ops[drv[d].i].id).run_state = RUNNING
        /\ \A k \in 1..Len(drv[d].ops) :
               (k < drv[d].i /\ ExecutesNormally(drv[d].ops[k])) =>
                   LET id == drv[d].ops[k].id
                       evs == LogOf(d, id)
                   IN  /\ drv[d].ops[k].run_state = QUEUED
                       /\ EventNames(evs) =
                              <<"resolve", "set_running", "execute", "set_completed">>
                       /\ evs[4].res = evs[3].res
                       /\ evs[3].res.kind = "result"
                       /\ Active(d) =>
                              /\ Stored(id).run_state = COMPLETED
                              /\ Stored(id).result = evs[3].res

\* The "echo" scenario: the loop is exhausted and a listed document is stored
\* COMPLETED with the payload its operator returned.
C10_Witness ==
    /\ Finished("d1")
    /\ \E k \in 1..Len(drv["d1"].ops) :
           /\ ExecutesNormally(drv["d1"].ops[k])
           /\ Stored(drv["d1"].ops[k].id).run_state = COMPLETED
           /\ Stored(drv["d1"].ops[k].id).result = Payload("hi", drv["d1"].ops[k].id)

\* The operator of doc resolves and its execute call raises.
ExecutionRaises(doc) ==
    /\ doc.context # None
    /\ ~ResolutionFails(doc)
    /\ operator_raises(doc.operator)

(* C11: a listed document whose operator resolves and raises while executing
   is written RUNNING by the driver, its exception is caught, and its final
   write is FAILED with the error trace; the driver never writes it COMPLETED,
   and until the call returns it is stored FAILED with the trace. *)
C11_ExecutionFailureEndsFailed ==
    \A d \in Drivers :
        \A k \in 1..Len(drv[d].ops) :
            (k < drv[d].i /\ ExecutionRaises(drv[d].ops[k])) =>
                LET id == drv[d].ops[k].id
                    evs == LogOf(d, id)
                IN  /\ EventNames(evs) = <<"resolve", "set_running", "execute", "set_failed">>
                    /\ evs[4].res = Traceback
                    /\ drv[d].outcome # "raised"
                    /\ Active(d) =>
                           /\ Stored(id).run_state = FAILED
                           /\ Stored(id).result = Traceback

\* The loop is exhausted and a listed document whose operator raised is
\* stored FAILED with the trace, after one execution.
C11_Witness ==
    /\ Finished("d1")
    /\ \E k \in 1..Len(drv["d1"].ops) :
           /\ ExecutionRaises(drv["d1"].ops[k])
           /\ executions[drv["d1"].ops[k].id] = 1
           /\ Stored(drv["d1"].ops[k].id).run_state = FAILED
           /\ Stored(drv["d1"].ops[k].id).result = Traceback

(* C12: in every reachable state, a document whose run state is QUEUED or
   RUNNING has no result. *)
C12_ResultOnlyWhenTerminal ==
    \A k \in 1..Len(docs) :
        docs[k].run_state \in {QUEUED, RUNNING} => docs[k].result = NoResult

(* C13: rerun_operation(id) changes no stored document (the original keeps
   its id, operator, context, delegation target, run state, result and pinned
   flag) and the number of stored documents grows by exactly one. *)
C13_RerunStep ==
    \A id \in 1..MaxDocs :
        rerun_operation(id) =>
            /\ Len(docs') = Len(docs) + 1
            /\ \A k \in 1..Len(docs) : docs'[k] = docs[k]

\* C13, of every step.
C13_RerunLeavesOriginalUntouched == [][C13_RerunStep]_vars

\* A rerun of a document that a driver had completed with a result.
C13_Witness ==
    /\ last.op = "rerun_operation"
    /\ Len(docs) = 2
    /\ Stored(last.doc_id).run_state = COMPLETED
    /\ Stored(last.doc_id).result # NoResult
    /\ executions[last.doc_id] = 1

\* The place of document id in the listing of driver d's call (0: not listed).
Pos(d, id) ==
    IF \E k \in 1..Len(drv[d].ops) : drv[d].ops[k].id = id
    THEN CHOOSE k \in 1..Len(drv[d].ops) : drv[d].ops[k].id = id
    ELSE 0

IsFinalWrite(e) == e.ev \in {"set_completed", "set_failed"}

\* Documents that driver d's call has set RUNNING and not yet given a
\* COMPLETED/FAILED write.
RunningBy(d) ==
    {drv[d].log[j].id : j \in
        {j \in 1..Len(drv[d].log) :
            /\ drv[d].log[j].ev = "set_running"
            /\ \A j2 \in (j + 1)..Len(drv[d].log) :
                   ~(drv[d].log[j2].id = drv[d].log[j].id /\ IsFinalWrite(drv[d].log[j2]))}}

(* C14: one call of execute_queued_operations handles its documents one
   after the other in listing order: whenever the driver resolves, sets
   RUNNING, executes or writes a document, every document listed before it
   has already had its last event, a COMPLETED/FAILED write; the driver's
   events never go back to an earlier document; and at most one document is
   RUNNING because of the call. *)
C14_SequentialInListingOrder ==
    \A d \in Drivers :
        LET log == drv[d].log IN
        /\ \A j \in 1..Len(log) :
               /\ Pos(d, log[j].id) \in 1..Len(drv[d].ops)
               /\ Active(d) => Pos(d, log[j].id) <= drv[d].i
               /\ \A j2 \in (j + 1)..Len(log) :
                      Pos(d, log[j].id) <= Pos(d, log[j2].id)
               /\ \A p \in 1..(Pos(d, log[j].id) - 1) :
                      \E j1 \in 1..(j - 1) :
                          /\ log[j1].id = drv[d].ops[p].id
                          /\ IsFinalWrite(log[j1])
        /\ Cardinality(RunningBy(d)) <= 1

\* A call went through a listing of two documents and set both RUNNING,
\* the second one after the final write of the first.
C14_Witness ==
    /\ Finished("d1")
    /\ Len(drv["d1"].ops) = 2
    /\ \E j1, j2 \in 1..Len(drv["d1"].log) :
           /\ j1 < j2
           /\ drv["d1"].log[j1].id = drv["d1"].ops[1].id
           /\ IsFinalWrite(drv["d1"].log[j1])
           /\ drv["d1"].log[j2].id = drv["d1"].ops[2].id
           /\ drv["d1"].log[j2].ev = "set_running"
    /\ \E j \in 1..Len(drv["d1"].log) :
           /\ drv["d1"].log[j].id = drv["d1"].ops[1].id
           /\ drv["d1"].log[j].ev = "set_running"

(* C15: the document's id is put into the request parameters under run_doc
   before the operator is resolved: every resolution of a document's operator
   is given request parameters whose run_doc is the document's id, every
   execution runs on a context whose run_doc is the document's id, and no
   document is set RUNNING or executed before its resolution. *)
C15_RunDocInjectedBeforeResolve ==
    \A d \in Drivers :
        LET f == drv[d]
            log == drv[d].log IN
        /\ \A j \in 1..Len(log) :
               /\ log[j].ev = "resolve" =>
                      /\ log[j].res.kind = "params"
                      /\ log[j].res.run_doc = log[j].id
               /\ (log[j].ev = "execute" /\ log[j].res.kind = "result") =>
                      log[j].res.run_doc = log[j].id
               /\ log[j].ev \in {"set_running", "execute"} =>
                      \E j1 \in 1..(j - 1) :
                          log[j1].ev = "resolve" /\ log[j1].id = log[j].id
        /\ f.pc = "executing" =>
               /\ f.prepared.kind = "params"
               /\ f.prepared.run_doc = f.ops[f.i].id
        /\ (f.pc = "prepared" /\ ~IsExecutionResult(f.prepared)) =>
               f.prepared.run_doc = f.ops[f.i].id

\* The second document of a listing is being executed on a context that
\* carries its own id, after the first was resolved with its own id.
C15_Witness ==
    /\ drv["d1"].pc = "executing"
    /\ drv["d1"].i = 2
    /\ drv["d1"].prepared.run_doc = drv["d1"].ops[2].id
    /\ \E j \in 1..Len(drv["d1"].log) :
           /\ drv["d1"].log[j].ev = "execute"
           /\ drv["d1"].log[j].res = Payload("hi", drv["d1"].ops[1].id)

(* C17: a listed document without a context is never resolved, never set
   RUNNING and never executed by the driver: the injection of run_doc raises
   AttributeError, the driver catches it and writes FAILED with the error
   trace, and the call goes on with the rest of its listing. *)
C17_NoContextEndsFailed ==
    \A d \in Drivers :
        /\ drv[d].outcome # "raised"
        /\ Returned(d) => drv[d].i = Len(drv[d].ops) + 1
        /\ \A k \in 1..Len(drv[d].ops) :
               drv[d].ops[k].context = None =>
                   LET id == drv[d].ops[k].id
                       evs == LogOf(d, id)
                   IN  /\ executions[id] = 0
                       /\ \A j \in 1..Len(evs) :
                              evs[j].ev \notin {"resolve", "set_running", "execute", "set_completed"}
                       /\ (Active(d) /\ k = drv[d].i) =>
                              /\ evs = <<>>
                              /\ drv[d].pc \in {"loop", "except"}
                              /\ drv[d].pc = "except" => drv[d].exc = "AttributeError"
                       /\ (~Active(d) \/ k < drv[d].i) =>
                              /\ EventNames(evs) = <<"set_failed">>
                              /\ evs[1].res = Traceback
                       /\ (Active(d) /\ k < drv[d].i) =>
                              /\ Stored(id).run_state = FAILED
                              /\ Stored(id).result = Traceback

\* The first document of a listing of two had no context and is stored FAILED
\* with the trace; the second one was executed and written COMPLETED.
C17_Witness ==
    /\ Finished("d1")
    /\ Len(drv["d1"].ops) = 2
    /\ drv["d1"].ops[1].context = None
    /\ Stored(drv["d1"].ops[1].id).run_state = FAILED
    /\ Stored(drv["d1"].ops[1].id).result = Traceback
    /\ executions[drv["d1"].ops[1].id] = 0
    /\ executions[drv["d1"].ops[2].id] = 1
    /\ Stored(drv["d1"].ops[2].id).run_state = COMPLETED

\* The listing of the call of driver d that a step belongs to: the one taken
\* by the step when the step is the listing itself.
ListingOf(d) == IF drv[d].pc = "idle" THEN drv'[d].ops ELSE drv[d].ops

(* C16: a call of execute_queued_operations lists once, and only documents
   that are QUEUED and match the filters at that time; the listing is not
   taken again before the call returns; and from the listing to the return
   every document that is not in the listing, also one queued meanwhile by
   queue_operation or rerun_operation, keeps all its fields and is not
   executed. *)
C16_PassStep ==
    \A d \in Drivers :
        /\ \A o \in OperatorFilters, t \in Targets, l \in Limits :
               execute_queued_operations(d, o, t, l) =>
                   \A k \in 1..Len(drv'[d].ops) :
                       /\ drv'[d].ops[k] = Stored(drv'[d].ops[k].id)
                       /\ drv'[d].ops[k].run_state = QUEUED
                       /\ Matches(drv'[d].ops[k], o, t, QUEUED)
        /\ Active(d) => drv'[d].ops = drv[d].ops
        /\ (Active(d) \/ drv'[d].pc # "idle") =>
               /\ Len(docs') >= Len(docs)
               /\ \A k \in 1..Len(docs) :
                      (\A n \in 1..Len(ListingOf(d)) : ListingOf(d)[n].id # docs[k].id) =>
                          /\ docs'[k] = docs[k]
                          /\ executions'[docs[k].id] = executions[docs[k].id]
               /\ \A k \in (Len(docs) + 1)..Len(docs') :
                      /\ docs'[k].run_state = QUEUED
                      /\ docs'[k].result = NoResult
                      /\ executions'[docs'[k].id] = 0

\* C16, of every step.
C16_OnlyListedDocumentsChange == [][C16_PassStep]_vars

\* A call with no limit went through its listing of one document, and a
\* second document with the same operator and delegation target, queued
\* after the listing was taken, is still QUEUED, without result, not executed.
C16_Witness ==
    /\ Finished("d1")
    /\ drv["d1"].limit = NoLimit
    /\ Len(drv["d1"].ops) = 1
    /\ drv["d1"].ops[1].id = 1
    /\ Len(docs) = 2
    /\ docs[2].operator = docs[1].operator
    /\ docs[2].delegation_target = docs[1].delegation_target
    /\ docs[1].run_state \in Terminal
    /\ docs[2].run_state = QUEUED
    /\ docs[2].result = NoResult
    /\ executions[2] = 0

====
